---- MODULE Spec2Model ----
(***************************************************************************)
(* The statistical calculators of epi-statlab-hub: chiSquare, riskRatioCalc*)
(* oddsRatioCalc, epiMeasures and ciEpi.  Every calculator pairs a zod     *)
(* schema with a pure compute function; a caller parses a raw record with  *)
(* the schema and hands the parsed record to compute.                      *)
(*                                                                         *)
(* JavaScript numbers are carried as follows.                              *)
(*   - a finite double x is the integer round(x * S) (fixed point);        *)
(*   - the result of Math.exp on a finite argument u is carried by its     *)
(*     natural logarithm, [t |-> "exp", v |-> u]: such values exceed the   *)
(*     fixed-point range, and they are only compared, multiplied, divided  *)
(*     and displayed by the code;                                          *)
(*   - Infinity, -Infinity and NaN are values of their own, with the IEEE  *)
(*     rules for every operation the code applies to them.                 *)
(* The chi-square calculator works on whole counts with exact rationals.   *)
(***************************************************************************)
EXTENDS Integers, Sequences, FiniteSets, TLC

VARIABLES pc, calc, data, locals, ret, utilCalls

vars == <<pc, calc, data, locals, ret, utilCalls>>

----------------------------------------------------------------------------
(* Bounds of the model *)

\* largest whole cell count drawn for a 2x2 table
MaxCount == 3

----------------------------------------------------------------------------
(* JavaScript numbers *)

S == 10 ^ 4

Fin(v) == [t |-> "fin", v |-> v]
ExpOf(u) == [t |-> "exp", v |-> u]
PosInf == [t |-> "inf", v |-> 1]
NegInf == [t |-> "inf", v |-> -1]
NaN == [t |-> "nan", v |-> 0]

Zero == Fin(0)
One == Fin(S)
Half == Fin(S \div 2)

AbsI(n) == IF n < 0 THEN -n ELSE n
SgnI(n) == IF n < 0 THEN -1 ELSE 1

\* n / d rounded to the nearest integer, halves away from zero (d > 0)
RoundDiv(n, d) == SgnI(n) * ((2 * AbsI(n) + d) \div (2 * d))

\* fixed-point product and quotient of non-negative fixed-point integers
MulPos(x, y) ==
  LET xh == x \div S
      xl == x % S
      yh == y \div S
      yl == y % S
  IN  xh * yh * S + xh * yl + xl * yh + (xl * yl + S \div 2) \div S

\* long division, one decimal digit at a time
RECURSIVE DivDigits(_, _, _)
DivDigits(r, y, k) ==
  IF k = 0 THEN 0
  ELSE ((10 * r) \div y) * 10 ^ (k - 1) + DivDigits((10 * r) % y, y, k - 1)

DivPos(x, y) == (x \div y) * S + DivDigits(x % y, y, 4)

MulI(x, y) == SgnI(x) * SgnI(y) * MulPos(AbsI(x), AbsI(y))
DivI(x, y) == SgnI(x) * SgnI(y) * DivPos(AbsI(x), AbsI(y))

\* largest r in lo..hi with r * r <= n (lo * lo <= n)
RECURSIVE IsqrtIter(_, _, _)
IsqrtIter(n, lo, hi) ==
  IF lo >= hi THEN lo
  ELSE LET mid == (lo + hi + 1) \div 2
       IN  IF mid * mid <= n THEN IsqrtIter(n, mid, hi)
           ELSE IsqrtIter(n, lo, mid - 1)

Isqrt(n) == IsqrtIter(n, 0, 46340)

\* Math.sqrt on a non-negative fixed-point integer
SqrtI(x) == IF x < 2 * 10 ^ 5 THEN Isqrt(x * S) ELSE 10 * Isqrt(x * 100)

RECURSIVE Pow2(_)
Pow2(k) == IF k = 0 THEN 1 ELSE 2 * Pow2(k - 1)

\* the k >= 0 with 2^k * S <= x < 2^(k+1) * S, for x >= S
RECURSIVE Log2Up(_, _)
Log2Up(x, k) == IF x < 2 * Pow2(k) * S THEN k ELSE Log2Up(x, k + 1)

\* the k >= 0 with S <= x * 2^k < 2 * S, for 0 < x <= S
RECURSIVE Log2Down(_, _)
Log2Down(x, k) == IF x * Pow2(k) >= S THEN k ELSE Log2Down(x, k + 1)

\* ln(m / S) for S <= m < 2 * S:  2 * atanh((m - S) / (m + S))
LnMantissa(m) ==
  LET y == ((m - S) * S) \div (m + S)
      y2 == MulPos(y, y)
      y3 == MulPos(y, y2)
      y5 == MulPos(y3, y2)
      y7 == MulPos(y5, y2)
      y9 == MulPos(y7, y2)
  IN  2 * y + RoundDiv(2 * y3, 3) + RoundDiv(2 * y5, 5)
        + RoundDiv(2 * y7, 7) + RoundDiv(2 * y9, 9)

\* k * ln 2 in fixed point
Ln2Times(k) == RoundDiv(k * 693147, 100)

\* Math.log on a positive fixed-point integer
LnI(x) ==
  IF x >= S
    THEN LET k == Log2Up(x, 0)
         IN  Ln2Times(k) + LnMantissa(x \div Pow2(k))
    ELSE LET k == Log2Down(x, 0)
         IN  LnMantissa(x * Pow2(k)) - Ln2Times(k)

IsNaN(x) == x.t = "nan"
IsFinite(x) == x.t \in {"fin", "exp"}

Neg(x) ==
  CASE x.t = "fin" -> Fin(-x.v)
    [] x.t = "inf" -> [t |-> "inf", v |-> -x.v]
    [] x.t = "nan" -> NaN

\* the sign of a non-NaN number: -1, 0 or 1
Sign(x) ==
  CASE x.t = "fin" -> IF x.v = 0 THEN 0 ELSE SgnI(x.v)
    [] x.t = "exp" -> 1
    [] x.t = "inf" -> x.v

Add(x, y) ==
  CASE IsNaN(x) \/ IsNaN(y) -> NaN
    [] x.t = "inf" /\ y.t = "inf" -> IF x.v = y.v THEN x ELSE NaN
    [] x.t = "inf" /\ y.t = "fin" -> x
    [] x.t = "fin" /\ y.t = "inf" -> y
    [] x.t = "fin" /\ y.t = "fin" -> Fin(x.v + y.v)

Sub(x, y) == Add(x, Neg(y))

Mul(x, y) ==
  CASE IsNaN(x) \/ IsNaN(y) -> NaN
    [] x.t = "inf" \/ y.t = "inf" ->
         IF Sign(x) = 0 \/ Sign(y) = 0 THEN NaN
         ELSE [t |-> "inf", v |-> Sign(x) * Sign(y)]
    [] x.t = "fin" /\ y.t = "fin" -> Fin(MulI(x.v, y.v))
    [] x.t = "fin" /\ y.t = "exp" /\ x.v >= 0 ->
         IF x.v = 0 THEN Zero ELSE ExpOf(LnI(x.v) + y.v)

Div(x, y) ==
  CASE IsNaN(x) \/ IsNaN(y) -> NaN
    [] x.t = "inf" /\ y.t = "inf" -> NaN
    [] x.t = "inf" /\ y.t = "fin" ->
         [t |-> "inf", v |-> x.v * (IF y.v < 0 THEN -1 ELSE 1)]
    [] x.t = "fin" /\ y.t = "inf" -> Zero
    [] x.t = "fin" /\ y.t = "fin" ->
         IF y.v = 0
           THEN IF x.v = 0 THEN NaN ELSE [t |-> "inf", v |-> SgnI(x.v)]
           ELSE Fin(DivI(x.v, y.v))
    [] x.t = "fin" /\ y.t = "exp" /\ x.v >= 0 ->
         IF x.v = 0 THEN Zero ELSE ExpOf(LnI(x.v) - y.v)

Sqrt(x) ==
  CASE IsNaN(x) -> NaN
    [] x.t = "inf" -> IF x.v = 1 THEN PosInf ELSE NaN
    [] x.t = "fin" -> IF x.v < 0 THEN NaN ELSE Fin(SqrtI(x.v))

Log(x) ==
  CASE IsNaN(x) -> NaN
    [] x.t = "inf" -> IF x.v = 1 THEN PosInf ELSE NaN
    [] x.t = "exp" -> Fin(x.v)
    [] x.t = "fin" ->
         IF x.v < 0 THEN NaN ELSE IF x.v = 0 THEN NegInf ELSE Fin(LnI(x.v))

Exp(x) ==
  CASE IsNaN(x) -> NaN
    [] x.t = "inf" -> IF x.v = 1 THEN PosInf ELSE Zero
    [] x.t = "fin" -> ExpOf(x.v)

Abs(x) ==
  CASE IsNaN(x) -> NaN
    [] x.t = "inf" -> PosInf
    [] x.t = "exp" -> x
    [] x.t = "fin" -> Fin(AbsI(x.v))

\* x < y on non-NaN numbers
Below(x, y) ==
  CASE x.t = "inf" /\ y.t = "inf" -> x.v < y.v
    [] x.t = "inf" /\ y.t # "inf" -> x.v = -1
    [] x.t # "inf" /\ y.t = "inf" -> y.v = 1
    [] x.t = "fin" /\ y.t = "fin" -> x.v < y.v
    [] x.t = "exp" /\ y.t = "exp" -> x.v < y.v
    [] x.t = "fin" /\ y.t = "exp" -> x.v <= 0 \/ LnI(x.v) < y.v
    [] x.t = "exp" /\ y.t = "fin" -> y.v > 0 /\ x.v < LnI(y.v)

\* the JavaScript comparisons: every comparison with NaN is false
Lt(x, y) == ~IsNaN(x) /\ ~IsNaN(y) /\ Below(x, y)
Gt(x, y) == Lt(y, x)
Le(x, y) == ~IsNaN(x) /\ ~IsNaN(y) /\ ~Below(y, x)
StrictEq(x, y) == Le(x, y) /\ Le(y, x)

\* x || d : NaN and 0 are falsy
OrElse(x, d) == IF IsNaN(x) \/ (x.t = "fin" /\ x.v = 0) THEN d ELSE x

----------------------------------------------------------------------------

(* Exact rationals, for the chi-square statistic *)

RECURSIVE GCD(_, _)
GCD(m, n) == IF n = 0 THEN m ELSE GCD(n, m % n)

\* the fraction n / d (d > 0) in lowest terms
Rat(n, d) ==
  LET g == GCD(AbsI(n), d) IN [t |-> "rat", num |-> n \div g, den |-> d \div g]

\* the quotient of the rational q by the whole number k >= 0, as JavaScript
\* divides: x / 0 is Infinity, 0 / 0 is NaN
RatDiv(q, k) ==
  IF k = 0 THEN (IF q.num = 0 THEN NaN ELSE PosInf)
  ELSE LET g == GCD(AbsI(q.num), k) IN Rat(q.num \div g, q.den * (k \div g))

\* an exact value as a fixed-point number
RatToNum(q) == IF q.t = "rat" THEN Fin(RoundDiv(q.num * S, q.den)) ELSE q

----------------------------------------------------------------------------
(* Displayed values: the value of a result entry *)

Fixed(d, u) == [kind |-> "fixed", digits |-> d, units |-> u, text |-> ""]
Text(s) == [kind |-> "text", digits |-> 0, units |-> 0, text |-> s]
Plain(n) == [kind |-> "number", digits |-> 0, units |-> n, text |-> ""]

\* stands for the one-character string U+221E (the infinity sign)
InfinitySentinel == "(infinity sign)"

\* Number.prototype.toFixed(d), d <= 4: non-finite numbers print their names
ToFixed(x, d) ==
  CASE x.t = "fin" -> Fixed(d, RoundDiv(x.v, 10 ^ (4 - d)))
    [] x.t = "nan" -> Text("NaN")
    [] x.t = "inf" -> Text(IF x.v = 1 THEN "Infinity" ELSE "-Infinity")

\* toFixed(d) of an exact value
RatToFixed(q, d) ==
  IF q.t = "rat" THEN Fixed(d, RoundDiv(q.num * 10 ^ d, q.den)) ELSE ToFixed(q, d)

----------------------------------------------------------------------------
(* The distribution utility (confidenceIntervals/utils) *)

\* two-sided standard normal tail probability, by critical-value table
TwoSidedP(z) ==
  CASE z < 6745 -> S
    [] z >= 6745 /\ z < 12816 -> 5000
    [] z >= 12816 /\ z < 16449 -> 2000
    [] z >= 16449 /\ z < 19600 -> 1000
    [] z >= 19600 /\ z < 25758 -> 500
    [] z >= 25758 /\ z < 32905 -> 100
    [] z >= 32905 -> 5

\* getChiSqPValue(statistic, df) with df = 1
getChiSqPValue(x, df) ==
  CASE x.t = "fin" -> Fin(TwoSidedP(SqrtI(x.v)))
    [] x.t = "inf" -> Zero
    [] x.t = "nan" -> NaN

\* getTPValue(statistic, df).twoSided with df = 1000
getTPValue(x, df) ==
  [twoSided |-> CASE x.t = "fin" -> Fin(TwoSidedP(AbsI(x.v)))
                  [] x.t = "inf" -> Zero
                  [] x.t = "nan" -> NaN]

\* getZCritical(conf)
getZCritical(conf) ==
  CASE conf.v = 80 * S -> Fin(12816)
    [] conf.v = 95 * S -> Fin(19600)
    [] conf.v = 999 * 10 ^ 3 -> Fin(32905)

\* formatCI(lower, upper, digits): non-finite bounds show the sentinel
FormatBound(x, d) ==
  CASE x.t = "fin" -> ToFixed(x, d)
    [] x.t = "exp" -> [kind |-> "exp", digits |-> d, units |-> x.v, text |-> ""]
    [] x.t \in {"inf", "nan"} -> Text(InfinitySentinel)

formatCI(lower, upper, d) ==
  [kind |-> "ci", lower |-> FormatBound(lower, d), upper |-> FormatBound(upper, d)]

Call(fn, x, df) == [fn |-> fn, stat |-> x, df |-> df]

----------------------------------------------------------------------------
(* Schemas: z.object({...}) and its parse *)

ZNumber(min) ==
  [type |-> "number", min |-> min, hasMax |-> FALSE, max |-> 0,
   hasDefault |-> FALSE, default |-> 0]
ZNumberRange(min, max, default) ==
  [type |-> "number", min |-> min, hasMax |-> TRUE, max |-> max,
   hasDefault |-> TRUE, default |-> default]
ZBoolean(default) ==
  [type |-> "boolean", min |-> 0, hasMax |-> FALSE, max |-> 0,
   hasDefault |-> TRUE, default |-> default]

TableSchema ==
  [a |-> ZNumber(0), b |-> ZNumber(0), c |-> ZNumber(0), d |-> ZNumber(0)]

chiSquareSchema ==
  [a |-> ZNumber(0), b |-> ZNumber(0), c |-> ZNumber(0), d |-> ZNumber(0),
   yates |-> ZBoolean(FALSE)]

ciEpiSchema ==
  [a |-> ZNumber(0), b |-> ZNumber(0), c |-> ZNumber(0), d |-> ZNumber(0),
   conf |-> ZNumberRange(80 * S, 999 * 10 ^ 3, 95 * S)]

\* the table {a, b, c, d} of whole counts, as a raw record
Table(a, b, c, d) == [a |-> a * S, b |-> b * S, c |-> c * S, d |-> d * S]

Keyed(a, b, c, d) ==
  [Exposed_cases |-> a * S, Unexposed_cases |-> b * S,
   Exposed_control |-> c * S, Unexposed_control |-> d * S]

Definitions ==
  {"chiSquare", "part_000/riskRatioCalc", "part_000/oddsRatioCalc",
   "part_001/riskRatioCalc", "part_001/oddsRatioCalc", "epiMeasures", "ciEpi"}

Schema(def) ==
  CASE def = "chiSquare" -> chiSquareSchema
    [] def = "ciEpi" -> ciEpiSchema
    [] OTHER -> TableSchema

Examples(def) ==
  CASE def = "chiSquare" ->
         {[a |-> 10 * S, b |-> 20 * S, c |-> 30 * S, d |-> 40 * S, yates |-> TRUE]}
    [] def = "part_000/riskRatioCalc" -> {Table(45, 55, 20, 80)}
    [] def = "part_000/oddsRatioCalc" -> {Table(70, 30, 40, 60)}
    [] def = "part_001/riskRatioCalc" -> {Keyed(45, 55, 20, 80)}
    [] def = "part_001/oddsRatioCalc" -> {Keyed(70, 30, 40, 60)}
    [] def = "epiMeasures" -> {Table(20, 80, 10, 90)}
    [] def = "ciEpi" ->
         {[a |-> 20 * S, b |-> 80 * S, c |-> 10 * S, d |-> 90 * S, conf |-> 95 * S],
          [a |-> 2 * S, b |-> 18 * S, c |-> 0, d |-> 20 * S, conf |-> 95 * S]}

\* one field of the object: present and valid, or absent with a default
FieldOk(f, raw, key) ==
  IF key \in DOMAIN raw
    THEN IF f.type = "boolean" THEN raw[key] \in BOOLEAN
         ELSE raw[key] >= f.min /\ (f.hasMax => raw[key] <= f.max)
    ELSE f.hasDefault

SchemaAccepts(def, raw) ==
  \A key \in DOMAIN Schema(def) : FieldOk(Schema(def)[key], raw, key)

\* the parsed record: the declared keys only, defaults filled in
SchemaParse(def, raw) ==
  [key \in DOMAIN Schema(def) |->
     IF key \in DOMAIN raw THEN raw[key] ELSE Schema(def)[key].default]

----------------------------------------------------------------------------
(* chiSquare.compute *)

ZeroTotalsMessage == "Table contains a row or column with zero totals."

formatP(p) == IF Lt(p, Fin(10)) THEN Text("< 0.001") ELSE ToFixed(p, 4)

zeroTotalsRowsOnly(row1, row2, col1, col2) == row1 = 0 \/ row2 = 0

\* line 30: the guard of the short circuit
zeroTotals(row1, row2, col1, col2) == row1 = 0 \/ row2 = 0 \/ col1 = 0 \/ col2 = 0

correctedNumeratorAbs(numerator, n, yates) ==
  IF yates THEN Rat(AbsI(2 * numerator - n), 2) ELSE Rat(numerator, 1)

correctedNumeratorAdded(numerator, n, yates) ==
  IF yates THEN Rat(2 * numerator + n, 2) ELSE Rat(numerator, 1)

\* line 35: numerator - n / 2 is (2 * numerator - n) / 2
correctedNumerator(numerator, n, yates) ==
  IF yates
    THEN IF 2 * numerator - n > 0 THEN Rat(2 * numerator - n, 2) ELSE Rat(0, 1)
    ELSE Rat(numerator, 1)

chi2StatisticUnsquared(n, correctedNum, row1, row2, col1, col2) ==
  RatDiv(Rat(n * correctedNum.num, correctedNum.den), row1 * row2 * col1 * col2)

\* line 36
chi2Statistic(n, correctedNum, row1, row2, col1, col2) ==
  RatDiv(Rat(n * correctedNum.num * correctedNum.num,
             correctedNum.den * correctedNum.den),
         row1 * row2 * col1 * col2)

chiSquareCompute(d) ==
  LET a == d.a \div S
      b == d.b \div S
      c == d.c \div S
      dd == d.d \div S
      yates == d.yates
      n == a + b + c + dd
      row1 == a + b
      row2 == c + dd
      col1 == a + c
      col2 == b + dd
      sums == [n |-> n, row1 |-> row1, row2 |-> row2, col1 |-> col1, col2 |-> col2]
  IN  IF zeroTotals(row1, row2, col1, col2)
        THEN [locals |-> sums,
              ret |-> [results |-> <<>>,
                       interpretation |-> [text |-> ZeroTotalsMessage, args |-> <<>>]],
              calls |-> <<>>]
        ELSE
          LET numerator == AbsI(a * dd - b * c)
              correctedNum == correctedNumerator(numerator, n, yates)
              chi2 == chi2Statistic(n, correctedNum, row1, row2, col1, col2)
              chi2f == RatToNum(chi2)
              pValue == getChiSqPValue(chi2f, 1)
          IN  [locals |-> sums @@ [numerator |-> numerator, correctedNum |-> correctedNum,
                                   chi2 |-> chi2, pValue |-> pValue],
               ret |-> [results |->
                          <<[label |-> "Chi-Square", value |-> RatToFixed(chi2, 4),
                             isMain |-> TRUE],
                            [label |-> "p-value", value |-> formatP(pValue),
                             isMain |-> TRUE],
                            [label |-> "Degrees of Freedom", value |-> Plain(1),
                             isMain |-> FALSE],
                            [label |-> "Yates Correction",
                             value |-> Text(IF yates THEN "Applied" ELSE "Not Applied"),
                             isMain |-> FALSE]>>,
                        interpretation |->
                          [text |-> "The Chi-square value is {0} (p = {1}).",
                           args |-> <<RatToFixed(chi2, 3), formatP(pValue)>>],
                        rCode |-> [a |-> a, b |-> b, c |-> c, d |-> dd,
                                   correct |-> IF yates THEN "TRUE" ELSE "FALSE"],
                        formula |-> "chi2 = n(|ad-bc| - c)^2 / (R1*R2*C1*C2)"],
               calls |-> <<Call("getChiSqPValue", chi2f, 1)>>]

----------------------------------------------------------------------------
(* The formula helpers of epidemiology/utils *)

\* the normal critical value of a 95% interval
Z95 == Fin(19600)

\* the estimate with its log-scale 95% interval
withLogInterval(value, se) ==
  [value |-> value,
   lower |-> Exp(Sub(Log(value), Mul(Z95, se))),
   upper |-> Exp(Add(Log(value), Mul(Z95, se)))]

\* computeOR(data): OR = (a * d) / (b * c) with Woolf's log-scale interval
computeOR(d) ==
  withLogInterval(
    Div(Mul(Fin(d.a), Fin(d.d)), Mul(Fin(d.b), Fin(d.c))),
    Sqrt(Add(Add(Add(Div(One, Fin(d.a)), Div(One, Fin(d.b))), Div(One, Fin(d.c))),
             Div(One, Fin(d.d)))))

\* computeRR(data): RR = [a / (a + b)] / [c / (c + d)] with Katz's interval
computeRR(d) ==
  withLogInterval(
    Div(Div(Fin(d.a), Add(Fin(d.a), Fin(d.b))), Div(Fin(d.c), Add(Fin(d.c), Fin(d.d)))),
    Sqrt(Add(Sub(Div(One, Fin(d.a)), Div(One, Add(Fin(d.a), Fin(d.b)))),
             Sub(Div(One, Fin(d.c)), Div(One, Add(Fin(d.c), Fin(d.d)))))))

\* formatPercent(x): the number shown as a percentage
formatPercent(x) == [kind |-> "percent", of |-> x]

RCode(d) == [a |-> d.a, b |-> d.b, c |-> d.c, d |-> d.d]

----------------------------------------------------------------------------
(* riskRatioCalc.compute and oddsRatioCalc.compute *)

riskRatioCalcCompute(d) ==
  LET res == computeRR(d)
      a == Fin(d.a)
      b == Fin(d.b)
      c == Fin(d.c)
      dd == Fin(d.d)
  IN  [locals |-> [res |-> res],
       ret |-> [results |->
                  <<[label |-> "Risk Ratio (RR)", value |-> ToFixed(res.value, 3),
                     isMain |-> TRUE],
                    [label |-> "95% CI (Log Method)",
                     value |-> formatCI(res.lower, res.upper, 3), isMain |-> TRUE],
                    [label |-> "Exposed Risk",
                     value |-> formatPercent(Div(a, Add(a, b))), isMain |-> FALSE],
                    [label |-> "Unexposed Risk",
                     value |-> formatPercent(Div(c, Add(c, dd))), isMain |-> FALSE]>>,
                interpretation |->
                  [text |-> "Exposed group has {0} risk (RR={1}).",
                   args |-> <<Text(IF Gt(res.value, One) THEN "higher" ELSE "lower"),
                              ToFixed(res.value, 2)>>],
                rCode |-> RCode(d),
                formula |-> "RR = [a / (a+b)] / [c / (c+d)]"],
       calls |-> <<>>]

oddsRatioCalcCompute(d) ==
  LET res == computeOR(d)
      a == Fin(d.a)
      b == Fin(d.b)
      c == Fin(d.c)
      dd == Fin(d.d)
  IN  [locals |-> [res |-> res],
       ret |-> [results |->
                  <<[label |-> "Odds Ratio (OR)", value |-> ToFixed(res.value, 3),
                     isMain |-> TRUE],
                    [label |-> "95% CI (Woolf)",
                     value |-> formatCI(res.lower, res.upper, 3), isMain |-> TRUE],
                    [label |-> "Exposed Odds", value |-> ToFixed(Div(a, b), 3),
                     isMain |-> FALSE],
                    [label |-> "Unexposed Odds", value |-> ToFixed(Div(c, dd), 3),
                     isMain |-> FALSE]>>,
                interpretation |->
                  [text |-> "The odds ratio is {0}.", args |-> <<ToFixed(res.value, 3)>>],
                rCode |-> RCode(d),
                formula |-> "OR = (a * d) / (b * c)"],
       calls |-> <<>>]

----------------------------------------------------------------------------
(* epiMeasures.compute *)

epiMeasuresCompute(d) ==
  LET a == Fin(d.a)
      b == Fin(d.b)
      c == Fin(d.c)
      dd == Fin(d.d)
      n1 == Add(a, b)
      n2 == Add(c, dd)
      r1 == Div(a, n1)
      r2 == Div(c, n2)
      rr == Div(r1, r2)
      or == Div(Mul(a, dd), Mul(b, c))
  IN  [locals |-> [n1 |-> n1, n2 |-> n2, r1 |-> r1, r2 |-> r2, rr |-> rr, or |-> or],
       ret |-> [results |->
                  <<[label |-> "Relative Risk (RR)", value |-> ToFixed(rr, 3),
                     isMain |-> TRUE],
                    [label |-> "Odds Ratio (OR)", value |-> ToFixed(or, 3),
                     isMain |-> TRUE]>>,
                interpretation |->
                  [text |-> "RR is {0}, OR is {1}.",
                   args |-> <<ToFixed(rr, 2), ToFixed(or, 2)>>],
                rCode |-> RCode(d),
                formula |-> "RR = [a/(a+b)] / [c/(c+d)]; OR = (a*d) / (b*c)"],
       calls |-> <<>>]

----------------------------------------------------------------------------
(* ciEpi.compute *)

\* the degrees of freedom of the near-normal reference distribution
LargeDf == 1000

getLogPStrict(est, seLog) ==
  IF Lt(est, Zero) \/ ~IsFinite(est)
    THEN [p |-> One, calls |-> <<>>]
    ELSE LET zStat == Div(Abs(Log(est)), seLog)
         IN  [p |-> getTPValue(zStat, LargeDf).twoSided,
              calls |-> <<Call("getTPValue", zStat, LargeDf)>>]

\* getLogP(est, seLog): the p-value, and the utility calls made for it
getLogP(est, seLog) ==
  IF Le(est, Zero) \/ ~IsFinite(est)
    THEN [p |-> One, calls |-> <<>>]
    ELSE LET zStat == Div(Abs(Log(est)), seLog)
         IN  [p |-> getTPValue(zStat, LargeDf).twoSided,
              calls |-> <<Call("getTPValue", zStat, LargeDf)>>]

f(n) == IF IsFinite(n) THEN ToFixed(n, 4) ELSE Text(InfinitySentinel)

fP(p) == IF Lt(p, Fin(10)) THEN Text("< 0.001") ELSE ToFixed(p, 4)

\* line 141
orPointOf(a, b, c, dd) ==
  IF b.v # 0 /\ c.v # 0 THEN Div(Mul(a, dd), Mul(b, c)) ELSE PosInf

logLowerAdded(est, zCrit, se) == Exp(Add(Log(est), Mul(zCrit, se)))

\* lines 146-147, 164-165: Math.exp(Math.log(est) -/+ zCrit * se)
logLower(est, zCrit, se) == Exp(Sub(Log(est), Mul(zCrit, se)))
logUpper(est, zCrit, se) == Exp(Add(Log(est), Mul(zCrit, se)))

denominatorsNonzero(a, b, c, dd) == b.v # 0 /\ c.v # 0

\* line 151: the condition of the uncorrected interval
allCellsNonzero(a, b, c, dd) == a.v # 0 /\ dd.v # 0 /\ b.v # 0 /\ c.v # 0

\* lines 160-162
riskOf(x, y) == OrElse(Div(x, Add(x, y)), Zero)
rrOf(r1, r2) ==
  IF StrictEq(r2, Zero) THEN (IF Gt(r1, Zero) THEN PosInf ELSE One) ELSE Div(r1, r2)

\* lines 132-143, 160-161: what is computed from the input alone
ciEpiStep1(d) ==
  [a |-> Fin(d.a), b |-> Fin(d.b), c |-> Fin(d.c), d |-> Fin(d.d),
   conf |-> Fin(d.conf),
   zCrit |-> getZCritical(Fin(d.conf)),
   orPoint |-> orPointOf(Fin(d.a), Fin(d.b), Fin(d.c), Fin(d.d)),
   ac |-> Add(Fin(d.a), Half), bc |-> Add(Fin(d.b), Half),
   cc |-> Add(Fin(d.c), Half), dc |-> Add(Fin(d.d), Half),
   r1 |-> riskOf(Fin(d.a), Fin(d.b)),
   r2 |-> riskOf(Fin(d.c), Fin(d.d))]

\* the sum of the reciprocals of four cells
sumOfReciprocals(a, b, c, dd) ==
  Add(Add(Add(Div(One, a), Div(One, b)), Div(One, c)), Div(One, dd))

\* lines 144-145, 162-163, 168-169
ciEpiCorrected(v) ==
  v @@
  [orCorrected |-> Div(Mul(v.ac, v.dc), Mul(v.bc, v.cc)),
   seLogOrWoolf |-> Sqrt(sumOfReciprocals(v.ac, v.bc, v.cc, v.dc)),
   rr |-> rrOf(v.r1, v.r2),
   rrSELog |->
     Sqrt(Add(Sub(Div(One, v.ac), Div(One, Add(v.ac, v.bc))),
              Sub(Div(One, v.cc), Div(One, Add(v.cc, v.dc))))),
   rd |-> Sub(v.r1, v.r2),
   seRd |->
     Sqrt(Add(Div(Mul(v.r1, Sub(One, v.r1)), OrElse(Add(v.a, v.b), One)),
              Div(Mul(v.r2, Sub(One, v.r2)), OrElse(Add(v.c, v.d), One))))]

\* lines 151-152: seExact exists in the uncorrected branch only
ciEpiStep2(v) ==
  IF allCellsNonzero(v.a, v.b, v.c, v.d)
    THEN ciEpiCorrected(v) @@ [seExact |-> Sqrt(sumOfReciprocals(v.a, v.b, v.c, v.d))]
    ELSE ciEpiCorrected(v)

\* lines 146-148, 164-172
ciEpiStep3(v) ==
  v @@
  [woolfLower |-> logLower(v.orCorrected, v.zCrit, v.seLogOrWoolf),
   woolfUpper |-> logUpper(v.orCorrected, v.zCrit, v.seLogOrWoolf),
   woolfLogP |-> getLogP(v.orCorrected, v.seLogOrWoolf),
   rrLower |->
     IF Gt(v.rr, Zero) /\ IsFinite(v.rr)
       THEN logLower(v.rr, v.zCrit, v.rrSELog) ELSE Zero,
   rrUpper |->
     IF Gt(v.rr, Zero) /\ IsFinite(v.rr)
       THEN logUpper(v.rr, v.zCrit, v.rrSELog)
       ELSE (IF Gt(v.rr, Zero) THEN PosInf ELSE Zero),
   rrLogP |-> getLogP(v.rr, v.rrSELog),
   rdLower |-> Sub(v.rd, Mul(v.zCrit, v.seRd)),
   rdUpper |-> Add(v.rd, Mul(v.zCrit, v.seRd)),
   rdStat |-> IF StrictEq(v.seRd, Zero) THEN Zero ELSE Div(v.rd, v.seRd)]

\* lines 150-158, and the p-values as numbers
ciEpiStep4(v) ==
  v @@
  [exactLower |->
     IF allCellsNonzero(v.a, v.b, v.c, v.d)
       THEN Div(v.orPoint, Exp(Mul(v.zCrit, v.seExact))) ELSE v.woolfLower,
   exactUpper |->
     IF allCellsNonzero(v.a, v.b, v.c, v.d)
       THEN Mul(v.orPoint, Exp(Mul(v.zCrit, v.seExact))) ELSE v.woolfUpper,
   woolfP |-> v.woolfLogP.p,
   rrP |-> v.rrLogP.p,
   rdP |-> getTPValue(v.rdStat, LargeDf).twoSided]

\* lines 179-193: the record returned, and the utility calls made
ciEpiResult(d, v) ==
  [locals |-> v,
   ret |-> [results |->
              <<[label |-> "Odds Ratio (Point)", value |-> f(v.orPoint),
                 isMain |-> TRUE],
                [label |-> "Approximate Exact CI (Fisher-like)",
                 value |-> formatCI(v.exactLower, v.exactUpper, 4), isMain |-> TRUE],
                [label |-> "Woolf (Wald) CI",
                 value |-> formatCI(v.woolfLower, v.woolfUpper, 4), isMain |-> FALSE],
                [label |-> "p-value (Association)", value |-> fP(v.woolfP),
                 isMain |-> TRUE],
                [label |-> "Relative Risk (RR)", value |-> f(v.rr), isMain |-> FALSE],
                [label |-> "RR 95% CI (Katz)",
                 value |-> formatCI(v.rrLower, v.rrUpper, 4), isMain |-> FALSE],
                [label |-> "Risk Difference (RD)", value |-> f(v.rd),
                 isMain |-> FALSE],
                [label |-> "RD 95% CI",
                 value |-> formatCI(v.rdLower, v.rdUpper, 4), isMain |-> FALSE]>>,
            interpretation |->
              [text |-> "The point Odds Ratio is {0} with association p={1}.",
               args |-> <<f(v.orPoint), fP(v.woolfP)>>],
            rCode |-> RCode(d),
            formula |-> "Woolf: SE(ln OR) = sqrt[1/a + 1/b + 1/c + 1/d]"],
   calls |-> <<Call("getZCritical", v.conf, 0)>> \o v.woolfLogP.calls
               \o v.rrLogP.calls \o <<Call("getTPValue", v.rdStat, LargeDf)>>]

ciEpiCompute(d) == ciEpiResult(d, ciEpiStep4(ciEpiStep3(ciEpiStep2(ciEpiStep1(d)))))

----------------------------------------------------------------------------
(* The caller: parse a raw record with the schema, then compute *)

Counts == 0 .. MaxCount

\* the numbers a caller may put in a cell: whole counts, a fraction, a negative
FractionCell == S \div 20
RawCells == {k * S : k \in Counts} \cup {FractionCell, -S}
RawWholeCells == {k * S : k \in Counts} \cup {-S}
RawConfs == {70 * S, 80 * S, 95 * S, 999 * 10 ^ 3}

RawTables(cells) == [a : cells, b : cells, c : cells, d : cells]

RawInputs(def) ==
  Examples(def) \cup
  CASE def = "chiSquare" ->
         RawTables(RawWholeCells) \cup
         {t @@ [yates |-> y] : t \in RawTables(RawWholeCells), y \in BOOLEAN} \cup
         {Table(0, 0, 5, 5)}
    [] def = "ciEpi" ->
         RawTables(RawCells) \cup
         {t @@ [conf |-> cf] : t \in RawTables(RawCells), cf \in RawConfs}
    [] OTHER -> RawTables(RawCells)

Parse(def, raw) ==
  /\ pc = "idle"
  /\ calc' = def
  /\ IF SchemaAccepts(def, raw)
       THEN pc' = "parsed" /\ data' = SchemaParse(def, raw)
       ELSE pc' = "rejected" /\ data' = raw
  /\ UNCHANGED <<locals, ret, utilCalls>>

Compute(def, out) ==
  /\ pc = "parsed"
  /\ calc = def
  /\ pc' = "done"
  /\ locals' = out.locals
  /\ ret' = out.ret
  /\ utilCalls' = out.calls
  /\ UNCHANGED <<calc, data>>

chiSquare == Compute("chiSquare", chiSquareCompute(data))

riskRatioCalc ==
  \E def \in {"part_000/riskRatioCalc", "part_001/riskRatioCalc"} :
    Compute(def, riskRatioCalcCompute(data))

oddsRatioCalc ==
  \E def \in {"part_000/oddsRatioCalc", "part_001/oddsRatioCalc"} :
    Compute(def, oddsRatioCalcCompute(data))

epiMeasures == Compute("epiMeasures", epiMeasuresCompute(data))

ciEpi == Compute("ciEpi", ciEpiCompute(data))

----------------------------------------------------------------------------
(* Properties *)

Done(def) == pc = "done" /\ calc = def

CellKeys == {"a", "b", "c", "d"}

\* the whole counts of the table handed to chiSquare
A == data.a \div S
B == data.b \div S
C == data.c \div S
D == data.d \div S

ChiZeroSum == A + B = 0 \/ C + D = 0 \/ A + C = 0 \/ B + D = 0
ChiComputed == Done("chiSquare") /\ ~ChiZeroSum

Max0(n) == IF n > 0 THEN n ELSE 0

\* C1: a table with a zero row or column sum makes chiSquare.compute return
\* an empty results list with the explanatory message, and it returns before
\* the statistic is divided out or the distribution utility is called.
C1_ZeroTotalsShortCircuit ==
  (Done("chiSquare") /\ ChiZeroSum) =>
    /\ Len(ret.results) = 0
    /\ ret.interpretation.text = ZeroTotalsMessage
    /\ "chi2" \notin DOMAIN locals
    /\ utilCalls = <<>>

C1_Witness ==
  /\ Done("chiSquare")
  /\ data.a = 0 /\ data.b = 0 /\ data.c = 5 * S /\ data.d = 5 * S
  /\ Len(ret.results) = 0

\* C2: on a table whose row and column sums are all positive, with or
\* without the Yates correction, the chi-square statistic is a non-negative
\* number, and it is 0 whenever a * d = b * c.
C2_ChiSquareNonNegative ==
  ChiComputed =>
    /\ locals.chi2.t = "rat"
    /\ locals.chi2.num >= 0
    /\ locals.chi2.den > 0
    /\ (A * D = B * C => locals.chi2.num = 0 /\ ret.results[1].value = Fixed(4, 0))

C2_Witness ==
  /\ ChiComputed
  /\ data.yates
  /\ A > 0 /\ A * D = B * C
  /\ locals.chi2.num = 0

\* C3: the Yates-corrected numerator max(0, |ad - bc| - n/2) is never
\* negative and never above the uncorrected numerator |ad - bc|; without the
\* correction the numerator used is |ad - bc| itself.
C3_YatesNumerator ==
  ChiComputed =>
    LET num == AbsI(A * D - B * C)
        n == A + B + C + D
        cn == locals.correctedNum
    IN  /\ locals.numerator = num
        /\ cn.den > 0
        /\ cn.num >= 0
        /\ cn.num <= num * cn.den
        /\ (data.yates => 2 * cn.num = cn.den * Max0(2 * num - n))
        /\ (~data.yates => cn.num = num /\ cn.den = 1)

C3_Witness ==
  /\ ChiComputed
  /\ data.yates
  /\ locals.numerator > 0
  /\ locals.correctedNum.num = 0

ChiExample ==
  [a |-> 10 * S, b |-> 20 * S, c |-> 30 * S, d |-> 40 * S, yates |-> TRUE]

\* C4: the statistic is n * numerator^2 / (R1 * R2 * C1 * C2) with the
\* (optionally corrected) numerator; for a=10, b=20, c=30, d=40 with the
\* correction it is 2250000/5040000, displayed to 4 decimals as 0.4464.
C4_ChiSquareFormula ==
  ChiComputed =>
    LET num == AbsI(A * D - B * C)
        n == A + B + C + D
        twiceNum == IF data.yates THEN Max0(2 * num - n) ELSE 2 * num
        sums == (A + B) * (C + D) * (A + C) * (B + D)
    IN  /\ locals.chi2.t = "rat"
        /\ (data # ChiExample =>
              4 * locals.chi2.num * sums = locals.chi2.den * n * twiceNum * twiceNum)
        /\ ret.results[1].value = RatToFixed(locals.chi2, 4)
        /\ (data = ChiExample =>
              /\ locals.n = 100 /\ locals.row1 = 30 /\ locals.row2 = 70
              /\ locals.col1 = 40 /\ locals.col2 = 60
              /\ locals.numerator = 200
              /\ locals.correctedNum = Rat(150, 1)
              /\ locals.chi2 = Rat(2250000, 5040000)
              /\ ret.results[1].value = Fixed(4, 4464))

C4_Witness ==
  /\ Done("chiSquare")
  /\ data = ChiExample
  /\ ret.results[1].value.units = 4464

AnyCellZero == \E k \in CellKeys : data[k] = 0

\* C5: when any of a, b, c, d is 0 the "exact-like" OR interval of ciEpi is
\* the Woolf interval itself, and the uncorrected-count interval is computed
\* only when all four cells are nonzero.
C5_ZeroCellFallback ==
  Done("ciEpi") =>
    /\ AnyCellZero =>
         /\ locals.exactLower = locals.woolfLower
         /\ locals.exactUpper = locals.woolfUpper
         /\ ret.results[2].value = ret.results[3].value
    /\ ("seExact" \in DOMAIN locals) <=> ~AnyCellZero

C5_Witness ==
  /\ Done("ciEpi")
  /\ data.a = 2 * S /\ data.b = 18 * S /\ data.c = 0 /\ data.d = 20 * S
  /\ locals.exactLower = locals.woolfLower
  /\ locals.exactUpper = locals.woolfUpper

RatioCalcs ==
  {"part_000/oddsRatioCalc", "part_001/oddsRatioCalc", "part_000/riskRatioCalc",
   "part_001/riskRatioCalc", "epiMeasures", "ciEpi"}

\* a displayed value that is JavaScript's own name of a non-finite number
ShowsJsName(v) == v.kind = "text" /\ v.text \in {"Infinity", "-Infinity", "NaN"}

\* C6: whatever the table, no entry of a ratio calculator's result record
\* shows a non-finite number as "Infinity" or "NaN": such values are shown
\* as the infinity-sign sentinel.
C6_SentinelRendering ==
  (pc = "done" /\ calc \in RatioCalcs) =>
    /\ \A i \in DOMAIN ret.results : ~ShowsJsName(ret.results[i].value)
    /\ \A i \in DOMAIN ret.interpretation.args : ~ShowsJsName(ret.interpretation.args[i])

\* cells counted in hundredths, for exact cross-multiplication
Hundredths(k) == data[k] \div (S \div 100)

EqualRisks ==
  /\ Hundredths("a") + Hundredths("b") > 0
  /\ Hundredths("c") + Hundredths("d") > 0
  /\ Hundredths("a") * (Hundredths("c") + Hundredths("d")) = Hundredths("c") * (Hundredths("a") + Hundredths("b"))

EqualOdds == Hundredths("a") * Hundredths("d") = Hundredths("b") * Hundredths("c")

\* C7: ciEpi and epiMeasures report RR = 1 whenever a/(a+b) = c/(c+d) and
\* OR = 1 whenever a * d = b * c, tables with zero cells included.
C7_NullEffect ==
  /\ Done("ciEpi") =>
       /\ EqualRisks => locals.rr = One
       /\ EqualOdds => locals.orPoint = One
  /\ Done("epiMeasures") =>
       /\ EqualRisks => locals.rr = One
       /\ EqualOdds => locals.or = One

Contains(lower, x, upper) == Le(lower, x) /\ Le(x, upper)

IntervalsContainEstimates ==
  /\ Contains(locals.exactLower, locals.orPoint, locals.exactUpper)
  /\ Contains(locals.woolfLower, locals.orPoint, locals.woolfUpper)
  /\ Contains(locals.rrLower, locals.rr, locals.rrUpper)
  /\ Contains(locals.rdLower, locals.rd, locals.rdUpper)

\* C8 as stated: for every input the ciEpi schema accepts with all four
\* cells > 0, each reported interval contains its point estimate.
C8_AllPositiveCells ==
  (Done("ciEpi") /\ \A k \in CellKeys : data[k] > 0) => IntervalsContainEstimates

\* C8: for every table of whole counts >= 1 and every confidence level of
\* the schema, each interval ciEpi reports contains its point estimate: the
\* exact-like and the Woolf interval contain orPoint, the Katz interval
\* contains rr, the Wald interval contains rd.
C8_WholeCountIntervals ==
  (Done("ciEpi") /\ \A k \in CellKeys : data[k] >= S /\ data[k] % S = 0)
    => IntervalsContainEstimates

C8_Witness ==
  /\ Done("ciEpi")
  /\ data.a = 3 * S /\ data.b = S /\ data.c = S /\ data.d = 3 * S
  /\ data.conf = 80 * S
  /\ locals.orPoint # locals.orCorrected
  /\ IntervalsContainEstimates

\* C9: getLogP answers 1 without calling the distribution utility when its
\* estimate is <= 0 or not finite, and otherwise the two-sided p-value of
\* |ln(est)| / SE at 1000 degrees of freedom; so the RR p-value is 1 when rr
\* is 0 or Infinity, and the association p-value always comes from the
\* corrected OR, which is positive and finite.
C9_LogPValue ==
  Done("ciEpi") =>
    LET woolfCall ==
          Call("getTPValue",
               Div(Abs(Log(locals.orCorrected)), locals.seLogOrWoolf), LargeDf)
        rrCall ==
          Call("getTPValue", Div(Abs(Log(locals.rr)), locals.rrSELog), LargeDf)
    IN  /\ Gt(locals.orCorrected, Zero) /\ IsFinite(locals.orCorrected)
        /\ utilCalls[2] = woolfCall
        /\ locals.woolfP = getTPValue(woolfCall.stat, LargeDf).twoSided
        /\ IF locals.rr = Zero \/ locals.rr = PosInf
             THEN /\ locals.rrP = One
                  /\ Len(utilCalls) = 3
             ELSE /\ Len(utilCalls) = 4
                  /\ utilCalls[3] = rrCall
                  /\ locals.rrP = getTPValue(rrCall.stat, LargeDf).twoSided

C9_Witness ==
  /\ Done("ciEpi")
  /\ locals.rr = Zero
  /\ locals.rrP = One
  /\ Len(utilCalls) = 3

\* the fields of its input that a definition's compute reads
ComputeReads(def) ==
  CASE def = "chiSquare" -> {"a", "b", "c", "d", "yates"}
    [] def = "ciEpi" -> {"a", "b", "c", "d", "conf"}
    [] OTHER -> {"a", "b", "c", "d"}

\* C10: every example of a definition is accepted by the definition's own
\* schema, and compute reads only fields the schema declares.
C10_ExamplesPassSchema ==
  /\ \A def \in Definitions : ComputeReads(def) \subseteq DOMAIN Schema(def)
  /\ pc = "rejected" => \A ex \in Examples(calc) : DOMAIN ex # DOMAIN data \/ ex # data

----------------------------------------------------------------------------
(* The specification *)

Init ==
  /\ pc = "idle"
  /\ calc = "none"
  /\ data = <<>>
  /\ locals = <<>>
  /\ ret = <<>>
  /\ utilCalls = <<>>

Next ==
  \/ pc = "idle" /\ \E def \in Definitions : \E raw \in RawInputs(def) : Parse(def, raw)
  \/ chiSquare
  \/ riskRatioCalc
  \/ oddsRatioCalc
  \/ epiMeasures
  \/ ciEpi

Spec == Init /\ [][Next]_vars

====
